---- MODULE Spec2Model ----
(***************************************************************************)
(* A model of oauth_pen/models.py: the OAuth2 provider's Application,      *)
(* Grant, AccessToken and RefreshToken records, the methods defined on     *)
(* them, and the store (Django ORM tables with their on_delete rules) they *)
(* live in.                                                                *)
(*                                                                         *)
(* Python strings are sequences of one-character strings, so that split(), *)
(* urlparse() and parse_qsl() are computed character by character.         *)
(***************************************************************************)
EXTENDS Integers, Sequences, FiniteSets, TLC

\* None (Python) / NULL (SQL) in a field that holds a time: times are the
\* naturals, None is the one value below them.
NULL == 0 - 1

(***************************************************************************)
(* Python string primitives                                                *)
(***************************************************************************)

Min(S) == CHOOSE x \in S : \A y \in S : x <= y
Max(S) == CHOOSE x \in S : \A y \in S : x >= y

\* A finite set of integers as the sequence of its elements in rising order.
Sorted(S) == [k \in 1..Cardinality(S) |->
                CHOOSE x \in S : Cardinality({y \in S : y < x}) = k - 1]

Range(f) == {f[i] : i \in DOMAIN f}

\* str.find(c, start) for a one-character needle, 1-based; 0 when absent.
Find(s, c, start) ==
    LET hits == {i \in start..Len(s) : s[i] = c}
    IN  IF hits = {} THEN 0 ELSE Min(hits)

\* str.rfind(c), 1-based; 0 when absent.
RFind(s, c) ==
    LET hits == {i \in 1..Len(s) : s[i] = c}
    IN  IF hits = {} THEN 0 ELSE Max(hits)

\* s[i:] with a 1-based first position.
From(s, i) == IF i > Len(s) THEN << >> ELSE SubSeq(s, i, Len(s))

\* s[:i) : the characters before 1-based position i.
Before(s, i) == IF i <= 1 THEN << >> ELSE SubSeq(s, 1, i - 1)

Whitespace == {" ", "\t", "\n", "\r"}

\* str.split() with no argument: the maximal runs of non-whitespace, in order.
split(s) ==
    LET starts == {i \in 1..Len(s) :
                     s[i] \notin Whitespace /\ (i = 1 \/ s[i - 1] \in Whitespace)}
        end(i) == Min({j \in i..Len(s) : j = Len(s) \/ s[j + 1] \in Whitespace})
    IN  CHOOSE words \in {[k \in 1..Len(st) |-> SubSeq(s, st[k], end(st[k]))] :
                            st \in {Sorted(starts)}} : TRUE

\* str.split(sep) for a one-character separator: empty pieces are kept.
splitOn(s, sep) ==
    CHOOSE pieces \in
        {[k \in 1..(Len(seps) + 1) |->
            SubSeq(s, IF k = 1 THEN 1 ELSE seps[k - 1] + 1,
                      IF k = Len(seps) + 1 THEN Len(s) ELSE seps[k] - 1)] :
         seps \in {Sorted({i \in 1..Len(s) : s[i] = sep})}} : TRUE

\* str.split(sep, 1): at most one cut, at the first separator.
split1(s, sep) ==
    LET i == Find(s, sep, 1)
    IN  IF i = 0 THEN << s >> ELSE << Before(s, i), From(s, i + 1) >>

\* str.replace(a, b) for one-character a and b.
replace(s, a, b) == [i \in 1..Len(s) |-> IF s[i] = a THEN b ELSE s[i]]

UpperChars == << "A","B","C","D","E","F","G","H","I","J","K","L","M",
                 "N","O","P","Q","R","S","T","U","V","W","X","Y","Z" >>
LowerChars == << "a","b","c","d","e","f","g","h","i","j","k","l","m",
                 "n","o","p","q","r","s","t","u","v","w","x","y","z" >>
Digits == << "0","1","2","3","4","5","6","7","8","9" >>

lowerChar(c) ==
    IF c \in Range(UpperChars)
    THEN LowerChars[CHOOSE i \in DOMAIN UpperChars : UpperChars[i] = c]
    ELSE c

\* str.lower()
lower(s) == [i \in 1..Len(s) |-> lowerChar(s[i])]

isalpha(c) == c \in Range(UpperChars) \cup Range(LowerChars)

(***************************************************************************)
(* urllib.parse, as Grant.redirect_uri_allowed uses it                     *)
(***************************************************************************)

\* urllib.parse.scheme_chars
scheme_chars == Range(UpperChars) \cup Range(LowerChars) \cup Range(Digits) \cup {"+", "-", "."}

\* urllib.parse.uses_params, as character sequences.
uses_params ==
    { << >>, <<"f","t","p">>, <<"h","d","l">>, <<"p","r","o","s","p","e","r","o">>,
      <<"h","t","t","p">>, <<"i","m","a","p">>, <<"h","t","t","p","s">>,
      <<"s","h","t","t","p">>, <<"r","t","s","p">>, <<"r","t","s","p","s">>,
      <<"r","t","s","p","u">>, <<"s","i","p">>, <<"s","i","p","s">>,
      <<"m","m","s">>, <<"s","f","t","p">>, <<"t","e","l">> }

\* urllib.parse._splitnetloc(url, 2): the netloc ends at the first of / ? #.
splitnetloc(url) ==
    LET cut(c)  == LET w == Find(url, c, 3) IN IF w = 0 THEN Len(url) + 1 ELSE w
        delim   == Min({cut("/"), cut("?"), cut("#")})
    IN  << SubSeq(url, 3, delim - 1), From(url, delim) >>

\* urlsplit, the scheme: the characters before the first ':' when the first
\* is a letter and all are scheme characters, lower-cased.
split_scheme(url) ==
    LET i      == Find(url, ":", 1)
        hasSch == /\ i > 1
                  /\ isalpha(url[1])
                  /\ \A k \in 1..(i - 1) : url[k] \in scheme_chars
    IN  [scheme |-> IF hasSch THEN lower(Before(url, i)) ELSE << >>,
         url |-> IF hasSch THEN From(url, i + 1) ELSE url]

\* urlsplit, the netloc: what follows a leading '//'.
split_netloc(r) ==
    IF Len(r.url) >= 2 /\ r.url[1] = "/" /\ r.url[2] = "/"
    THEN [scheme |-> r.scheme, netloc |-> splitnetloc(r.url)[1], url |-> splitnetloc(r.url)[2]]
    ELSE [scheme |-> r.scheme, netloc |-> << >>, url |-> r.url]

\* urlsplit, the fragment: what follows the first '#'.
split_fragment(r) ==
    LET h == Find(r.url, "#", 1)
    IN  [scheme |-> r.scheme, netloc |-> r.netloc,
         url |-> IF h = 0 THEN r.url ELSE Before(r.url, h),
         fragment |-> IF h = 0 THEN << >> ELSE From(r.url, h + 1)]

\* urlsplit, the query: what follows the first '?'; the rest is the path.
split_query(r) ==
    LET q == Find(r.url, "?", 1)
    IN  [scheme |-> r.scheme, netloc |-> r.netloc,
         path |-> IF q = 0 THEN r.url ELSE Before(r.url, q),
         query |-> IF q = 0 THEN << >> ELSE From(r.url, q + 1),
         fragment |-> r.fragment]

\* urllib.parse.urlsplit(url): (scheme, netloc, path, query, fragment), its
\* statements one after the other.
urlsplit(url) ==
    CHOOSE r \in {split_query(c) : c \in
                   {split_fragment(b) : b \in
                      {split_netloc(a) : a \in {split_scheme(url)}}}} : TRUE

\* urllib.parse._splitparams(url), called with a ';' in url: (path, params).
splitparams(url) ==
    LET sl == RFind(url, "/")
        i  == IF sl > 0 THEN Find(url, ";", sl) ELSE Find(url, ";", 1)
    IN  IF i = 0 THEN << url, << >> >>
        ELSE << Before(url, i), From(url, i + 1) >>

\* urllib.parse.urlparse(url): urlsplit, then the params cut off the path.
with_params(r) ==
    LET withP == r.scheme \in uses_params /\ Find(r.path, ";", 1) > 0
    IN  [scheme |-> r.scheme, netloc |-> r.netloc,
         path |-> IF withP THEN splitparams(r.path)[1] ELSE r.path,
         params |-> IF withP THEN splitparams(r.path)[2] ELSE << >>,
         query |-> r.query, fragment |-> r.fragment]

urlparse(url) == CHOOSE p \in {with_params(r) : r \in {urlsplit(url)}} : TRUE

HexChars == << "0","1","2","3","4","5","6","7","8","9","a","b","c","d","e","f" >>

ishex(c) == lowerChar(c) \in Range(HexChars)

hexval(c) == (CHOOSE i \in DOMAIN HexChars : HexChars[i] = lowerChar(c)) - 1

\* chr(n) for the code points the inputs can encode; every other code point
\* is kept apart from them as one character.
chr(n) ==
    CASE n = 32 -> " "
      [] n = 38 -> "&"
      [] n = 61 -> "="
      [] n >= 48 /\ n <= 57 -> Digits[n - 47]
      [] n >= 97 /\ n <= 122 -> LowerChars[n - 96]
      [] OTHER -> "\\x"

\* urllib.parse.unquote(s): %XX becomes the character XX names; a % that no
\* two hex digits follow is kept. (The two digits of an escape are no '%', so
\* escapes never overlap.)
unquote(s) ==
    LET esc == {i \in 1..(Len(s) - 2) :
                  s[i] = "%" /\ ishex(s[i + 1]) /\ ishex(s[i + 2])}
    IN  CHOOSE out \in
            {[k \in 1..Len(kept) |->
                IF kept[k] \in esc
                THEN chr(16 * hexval(s[kept[k] + 1]) + hexval(s[kept[k] + 2]))
                ELSE s[kept[k]]] :
             kept \in {Sorted({i \in 1..Len(s) : (i - 1) \notin esc /\ (i - 2) \notin esc})}} : TRUE

\* urllib.parse.parse_qsl(qs) with its defaults (keep_blank_values=False,
\* strict_parsing=False, separator='&'): the list of (name, value) pairs. An
\* empty field, a field with no '=' and a field with an empty value are
\* skipped.
parse_field(nv) == << unquote(replace(nv[1], "+", " ")), unquote(replace(nv[2], "+", " ")) >>

parse_qsl(qs) ==
    LET query_args == IF qs = << >> THEN << >> ELSE splitOn(qs, "&")
    IN  CHOOSE r \in
            {[k \in 1..Len(taken) |-> parse_field(split1(taken[k], "="))] :
             taken \in {SelectSeq(query_args,
                                  LAMBDA name_value :
                                      /\ name_value # << >>
                                      /\ Len(split1(name_value, "=")) = 2
                                      /\ Len(split1(name_value, "=")[2]) > 0)}} : TRUE

(***************************************************************************)
(* Grant.redirect_uri_allowed                                              *)
(***************************************************************************)

uri_matches_superset(allowed_uri, uri) ==
    \E parsed_allowed_uri \in {urlparse(allowed_uri)}, parsed_uri \in {urlparse(uri)} :
        /\ parsed_allowed_uri.scheme = parsed_uri.scheme
        /\ parsed_allowed_uri.netloc = parsed_uri.netloc
        /\ parsed_allowed_uri.path = parsed_uri.path
        /\ Range(parse_qsl(parsed_uri.query)) \subseteq Range(parse_qsl(parsed_allowed_uri.query))

\* The test of one allow-list entry (the body of the for loop).
uri_matches(allowed_uri, uri) ==
    \E parsed_allowed_uri \in {urlparse(allowed_uri)}, parsed_uri \in {urlparse(uri)} :
        /\ parsed_allowed_uri.scheme = parsed_uri.scheme
        /\ parsed_allowed_uri.netloc = parsed_uri.netloc
        /\ parsed_allowed_uri.path = parsed_uri.path
        /\ LET aqs_set == Range(parse_qsl(parsed_allowed_uri.query))
               uqs_set == Range(parse_qsl(parsed_uri.query))
           IN  aqs_set \subseteq uqs_set

\* The loop over self.redirect_uris.split() returns True at the first entry
\* that matches and False when it runs out: True iff some entry matches.
redirect_uri_allowed(redirect_uris, uri) ==
    \E entries \in {split(redirect_uris)} :
        \E i \in 1..Len(entries) : uri_matches(entries[i], uri)

(***************************************************************************)
(* Inputs: URIs as the strings a client registers and presents             *)
(***************************************************************************)

Str_https == <<"h","t","t","p","s">>
Str_http  == <<"h","t","t","p">>
Str_a_com == <<"a",".","c","o","m">>
Str_b_com == <<"b",".","c","o","m">>
Str_cb    == <<"/","c","b">>
Str_other == <<"/","o">>

\* "https://a.com/cb?x=1", "https://a.com/cb?x=1&y=2", "https://a.com/cb?y=2",
\* "https://a.com/o?x=1"
Uri_cb_x1   == Str_https \o <<":","/","/">> \o Str_a_com \o Str_cb \o <<"?","x","=","1">>
Uri_cb_x1y2 == Uri_cb_x1 \o <<"&","y","=","2">>
Uri_cb_y2   == Str_https \o <<":","/","/">> \o Str_a_com \o Str_cb \o <<"?","y","=","2">>
Uri_o_x1    == Str_https \o <<":","/","/">> \o Str_a_com \o Str_other \o <<"?","x","=","1">>

(***************************************************************************)
(* The store: one table per model, rows as records                         *)
(***************************************************************************)

Procs == {"p1", "p2"}
Users == {"u1"}
Apps  == {"app1", "app2"}

\* Bounds of the model: the Grants created, the token pairs issued outside an
\* exchange, the last tick of the clock.
MaxGrants == 2
MaxTokens == 2
MaxTime   == 1

\* The allow-lists a Grant is created with, and the URIs presented at exchange.
GrantUriLists == {Uri_cb_x1, Uri_o_x1 \o <<" ">> \o Uri_cb_y2}
ExchangeUris  == {Uri_cb_x1y2, Uri_cb_y2}

VARIABLES
    now,            \* timezone.now()
    accessTokens,   \* rows of AccessToken
    refreshTokens,  \* rows of RefreshToken
    grants,         \* rows of Grant
    seq,            \* the tables' AutoField counters
    pc,             \* where each process stands in the method it runs
    inst,           \* the model instance each process holds (self)
    last,           \* the call that ended last: who, what, how
    exchanged,      \* history: the successful exchanges, (code, access token id)
    obj,            \* the receiver of the method calls on unsaved instances
    call,           \* the last such call and what it returned
    applications,   \* rows of Application
    users           \* rows of User

vars == << now, accessTokens, refreshTokens, grants, seq, pc, inst, last,
           exchanged, obj, call, applications, users >>

NoInst == [kind |-> "None"]
NoCall == [op |-> "none"]

ids(rows) == {r.id : r \in rows}

(***************************************************************************)
(* Grant.is_expired                                                        *)
(***************************************************************************)

\* Python truth of a DateTimeField value: None is false, a datetime is true.
truthy_time(t) == t # NULL

Grant_is_expired_fail_open(expires, t) ==
    IF ~ truthy_time(expires) THEN FALSE ELSE t >= expires

Grant_is_expired_strict(expires, t) ==
    IF ~ truthy_time(expires) THEN TRUE ELSE t > expires

Grant_is_expired(expires, t) ==
    IF ~ truthy_time(expires) THEN TRUE ELSE t >= expires

(***************************************************************************)
(* Model.delete() under the declared on_delete rules                       *)
(***************************************************************************)

AccessToken_delete_no_cascade(ats, rts, id) ==
    [ats |-> {a \in ats : a.id # id}, rts |-> rts]

AccessToken_delete_keeps_row(ats, rts, id) ==
    [ats |-> ats, rts |-> {r \in rts : r.access_token_id # id}]

\* AccessToken.delete(): the row goes, and with it (RefreshToken.access_token
\* is on_delete=CASCADE) every RefreshToken row that references it, in the
\* one transaction Django's deletion collector opens.
AccessToken_delete(ats, rts, id) ==
    [ats |-> {a \in ats : a.id # id},
     rts |-> {r \in rts : r.access_token_id # id}]

\* RefreshToken.delete(): nothing references a RefreshToken; a row that is
\* already gone deletes nothing.
RefreshToken_delete(rts, id) == {r \in rts : r.id # id}

Grant_delete_keeps_row(gs, id) == gs

\* Grant.delete()
Grant_delete(gs, id) == {g \in gs : g.id # id}

(***************************************************************************)
(* The store's state machine                                               *)
(***************************************************************************)

StoreInit ==
    /\ now = 0
    /\ accessTokens = {}
    /\ refreshTokens = {}
    /\ grants = {}
    /\ seq = [at |-> 0, rt |-> 0, grant |-> 0]
    /\ pc = [p \in Procs |-> "ready"]
    /\ inst = [p \in Procs |-> NoInst]
    /\ last = NoCall
    /\ exchanged = {}
    /\ applications = {}
    /\ users = {}

Init ==
    /\ StoreInit
    /\ obj = NoInst
    /\ call = NoCall

\* The clock moves.
Tick ==
    /\ now < MaxTime
    /\ now' = now + 1
    /\ UNCHANGED << accessTokens, refreshTokens, grants, seq, pc, inst, last, exchanged, obj, call, applications, users >>

\* Token issue: an AccessToken row and, when the grant type is one that may
\* refresh, the RefreshToken row that owns it, with fresh ids and fresh token
\* strings.
issue(ats, rts, sq, u, app, t, refresh) ==
    [ats |-> ats \cup {[id |-> sq.at + 1, user |-> u, application |-> app,
                        token |-> sq.at + 1, expires |-> t + 1]},
     rts |-> IF refresh
             THEN rts \cup {[id |-> sq.rt + 1, access_token_id |-> sq.at + 1, user |-> u,
                             application |-> app, token |-> sq.rt + 1]}
             ELSE rts,
     seq |-> [sq EXCEPT !.at = @ + 1, !.rt = IF refresh THEN @ + 1 ELSE @]]

\* A token issue outside the code exchange (a password, client-credentials or
\* implicit grant).
IssueTokens(u, app, refresh) ==
    /\ seq.at < MaxTokens
    /\ LET i == issue(accessTokens, refreshTokens, seq, u, app, now, refresh)
       IN  /\ accessTokens' = i.ats
           /\ refreshTokens' = i.rts
           /\ seq' = i.seq
    /\ UNCHANGED << now, grants, pc, inst, last, exchanged, obj, call, applications, users >>

\* RefreshToken.objects.get(...) / AccessToken.objects.get(...): a process
\* takes a row as a model instance; the instance is a copy and goes stale
\* when the row changes.
LoadRefreshToken(p, rt) ==
    /\ pc[p] = "ready"
    /\ rt \in refreshTokens
    /\ inst' = [inst EXCEPT ![p] = [kind |-> "RefreshToken", row |-> rt]]
    /\ UNCHANGED << now, accessTokens, refreshTokens, grants, seq, pc, last, exchanged, obj, call, applications, users >>

LoadAccessToken(p, at) ==
    /\ pc[p] = "ready"
    /\ at \in accessTokens
    /\ inst' = [inst EXCEPT ![p] = [kind |-> "AccessToken", row |-> at]]
    /\ UNCHANGED << now, accessTokens, refreshTokens, grants, seq, pc, last, exchanged, obj, call, applications, users >>

\* AccessToken.revoke(): self.delete().
AccessToken_revoke(p) ==
    /\ pc[p] = "ready"
    /\ inst[p].kind = "AccessToken"
    /\ LET d == AccessToken_delete(accessTokens, refreshTokens, inst[p].row.id)
       IN  /\ accessTokens' = d.ats
           /\ refreshTokens' = d.rts
    /\ last' = [proc |-> p, op |-> "AccessToken.revoke", outcome |-> "ok",
                id |-> inst[p].row.id]
    /\ UNCHANGED << now, grants, seq, pc, inst, exchanged, obj, call, applications, users >>

\* RefreshToken.revoke(), first statement, the reads: self.access_token is
\* fetched by its stored id and AccessToken.objects.get(id=...) reads the row
\* again; with the row missing the read raises AccessToken.DoesNotExist and
\* revoke() ends there.
RefreshToken_revoke_get(p) ==
    /\ pc[p] = "ready"
    /\ inst[p].kind = "RefreshToken"
    /\ IF inst[p].row.access_token_id \in ids(accessTokens)
       THEN /\ pc' = [pc EXCEPT ![p] = "rt_revoke_at"]
            /\ UNCHANGED last
       ELSE /\ last' = [proc |-> p, op |-> "RefreshToken.revoke", outcome |-> "DoesNotExist",
                        id |-> inst[p].row.id]
            /\ UNCHANGED pc
    /\ UNCHANGED << now, accessTokens, refreshTokens, grants, seq, inst, exchanged, obj, call, applications, users >>

\* RefreshToken.revoke(), first statement, the call: .revoke() on the
\* AccessToken that was read.
RefreshToken_revoke_at(p) ==
    /\ pc[p] = "rt_revoke_at"
    /\ LET d == AccessToken_delete(accessTokens, refreshTokens, inst[p].row.access_token_id)
       IN  /\ accessTokens' = d.ats
           /\ refreshTokens' = d.rts
    /\ pc' = [pc EXCEPT ![p] = "rt_revoke_self"]
    /\ UNCHANGED << now, grants, seq, inst, last, exchanged, obj, call, applications, users >>

\* RefreshToken.revoke(), second statement: self.delete().
RefreshToken_revoke_self(p) ==
    /\ pc[p] = "rt_revoke_self"
    /\ refreshTokens' = RefreshToken_delete(refreshTokens, inst[p].row.id)
    /\ pc' = [pc EXCEPT ![p] = "ready"]
    /\ last' = [proc |-> p, op |-> "RefreshToken.revoke", outcome |-> "ok",
                id |-> inst[p].row.id]
    /\ UNCHANGED << now, accessTokens, grants, seq, inst, exchanged, obj, call, applications, users >>

\* The token store and its revocation: tokens are issued, processes take
\* rows and revoke them, in any interleaving.
Next ==
    \/ \E u \in Users, app \in Apps, refresh \in BOOLEAN : IssueTokens(u, app, refresh)
    \/ \E p \in Procs, rt \in refreshTokens : LoadRefreshToken(p, rt)
    \/ \E p \in Procs, at \in accessTokens : LoadAccessToken(p, at)
    \/ \E p \in Procs : AccessToken_revoke(p)
    \/ \E p \in Procs : RefreshToken_revoke_get(p)
    \/ \E p \in Procs : RefreshToken_revoke_at(p)
    \/ \E p \in Procs : RefreshToken_revoke_self(p)

Spec == Init /\ [][Next]_vars

(***************************************************************************)
(* The grant ledger's state machine: authorize, then exchange              *)
(***************************************************************************)

\* The authorize step stores a Grant: a fresh code, the redirect URIs of the
\* request, an expiry ahead of the clock.
CreateGrant(u, app, uris) ==
    /\ seq.grant < MaxGrants
    /\ grants' = grants \cup
         {[id |-> seq.grant + 1, user |-> u, code |-> seq.grant + 1,
           application |-> app, expires |-> now + 1, redirect_uris |-> uris,
           state |-> <<"s">>]}
    /\ seq' = [seq EXCEPT !.grant = @ + 1]
    /\ UNCHANGED << now, accessTokens, refreshTokens, pc, inst, last, exchanged, obj, call, applications, users >>

exchange_result(p, outcome, code, uri) ==
    [proc |-> p, op |-> "exchange", outcome |-> outcome, code |-> code, uri |-> uri]

\* The exchange protocol, the checks: look the code up, then InvalidGrant,
\* ExpiredGrant, RedirectMismatch in that order; a Grant that passes is held
\* for the consuming step.
Exchange_lookup(p, code, uri) ==
    /\ pc[p] = "ready"
    /\ LET found == {g \in grants : g.code = code}
           g     == CHOOSE r \in found : TRUE
           fail(outcome) ==
               /\ last' = exchange_result(p, outcome, code, uri)
               /\ inst' = [inst EXCEPT ![p] = NoInst]
               /\ UNCHANGED pc
       IN  IF found = {} THEN fail("InvalidGrant")
           ELSE IF Grant_is_expired(g.expires, now) THEN fail("ExpiredGrant")
           ELSE IF ~ redirect_uri_allowed(g.redirect_uris, uri) THEN fail("RedirectMismatch")
           ELSE /\ pc' = [pc EXCEPT ![p] = "exchange_consume"]
                /\ inst' = [inst EXCEPT ![p] = [kind |-> "Grant", row |-> g, uri |-> uri]]
                /\ UNCHANGED last
    /\ UNCHANGED << now, accessTokens, refreshTokens, grants, seq, exchanged, obj, call, applications, users >>

\* The exchange protocol, the consuming step: a compare-and-delete of the
\* Grant row and, in the same transaction, the issue of the token pair; with
\* the row already gone nothing is issued and the exchange is an InvalidGrant.
Exchange_consume(p) ==
    /\ pc[p] = "exchange_consume"
    /\ LET g == inst[p].row
           i == issue(accessTokens, refreshTokens, seq, g.user, g.application, now, TRUE)
       IN  IF g.id \in ids(grants)
           THEN /\ grants' = Grant_delete(grants, g.id)
                /\ accessTokens' = i.ats
                /\ refreshTokens' = i.rts
                /\ seq' = i.seq
                /\ exchanged' = exchanged \cup {[code |-> g.code, at |-> seq.at + 1]}
                /\ last' = exchange_result(p, "ok", g.code, inst[p].uri)
           ELSE /\ last' = exchange_result(p, "InvalidGrant", g.code, inst[p].uri)
                /\ UNCHANGED << grants, accessTokens, refreshTokens, seq, exchanged >>
    /\ pc' = [pc EXCEPT ![p] = "ready"]
    /\ inst' = [inst EXCEPT ![p] = NoInst]
    /\ UNCHANGED << now, obj, call, applications, users >>

\* The exchange never reads the Grant's application: one client asks.
GrantApps == {"app1"}

ExchangeNext ==
    \/ Tick
    \/ \E u \in Users, app \in GrantApps, uris \in GrantUriLists : CreateGrant(u, app, uris)
    \/ \E p \in Procs, code \in 1..MaxGrants, uri \in ExchangeUris : Exchange_lookup(p, code, uri)
    \/ \E p \in Procs : Exchange_consume(p)

SpecExchange == Init /\ [][ExchangeNext]_vars
(***************************************************************************)
(* ApplicationAbstract: clean and allow_grant_type                         *)
(***************************************************************************)

GRANT_AUTHORIZATION_CODE == "authorization-code"
GRANT_IMPLICIT           == "implicit"
GRANT_PASSWORD           == "password"
GRANT_CLIENT_CREDENTIALS == "client-credentials"

GRANT_TYPES ==
    {GRANT_AUTHORIZATION_CODE, GRANT_IMPLICIT, GRANT_PASSWORD, GRANT_CLIENT_CREDENTIALS}

\* The grant types a token request may name.
RequestedGrantTypes == GRANT_TYPES \cup {"refresh_token", "unknown"}

\* The redirect_uris an Application is written with: none, blank, one, two.
AppRedirectUris == { << >>, <<" ">>, Uri_cb_x1, Uri_cb_x1 \o <<" ">> \o Uri_o_x1 }

\* Python truth of a string: the empty string is false.
truthy_str(s) == Len(s) > 0

clean_any_grant_type(app) ==
    IF ~ truthy_str(app.redirect_uris) THEN "ValidationError" ELSE "ok"

\* ApplicationAbstract.clean(): raises ValidationError, or returns.
clean(app) ==
    IF /\ ~ truthy_str(app.redirect_uris)
       /\ app.authorization_grant_type \in {GRANT_IMPLICIT, GRANT_CLIENT_CREDENTIALS}
    THEN "ValidationError"
    ELSE "ok"

allow_grant_type_refresh_all(app, grant_type) ==
    IF grant_type = "refresh_token" THEN TRUE
    ELSE app.authorization_grant_type = grant_type

\* ApplicationAbstract.allow_grant_type(grant_type)
allow_grant_type(app, grant_type) ==
    IF grant_type = "refresh_token"
    THEN IF app.authorization_grant_type \in
              {GRANT_AUTHORIZATION_CODE, GRANT_PASSWORD, GRANT_CLIENT_CREDENTIALS}
         THEN TRUE
         ELSE FALSE
    ELSE IF app.authorization_grant_type = grant_type
         THEN TRUE
         ELSE FALSE

\* ApplicationAbstract.default_redirect_uri: the first of the split entries;
\* ValueError for a false redirect_uris; list.pop(0) raises IndexError when
\* split() found no entry in a string that is true.
Returned(value) == [raises |-> "None", value |-> value]
Raised(exc)     == [raises |-> exc, value |-> << >>]

default_redirect_uri(app) ==
    IF truthy_str(app.redirect_uris)
    THEN CHOOSE ret \in {IF entries = << >> THEN Raised("IndexError")
                                              ELSE Returned(entries[1]) :
                            entries \in {split(app.redirect_uris)}} : TRUE
    ELSE Raised("ValueError")

(***************************************************************************)
(* AccessToken: is_expired and is_valid                                    *)
(***************************************************************************)

AccessToken_is_expired_fail_open(expires, t) ==
    IF truthy_time(expires) THEN t >= expires ELSE FALSE

\* AccessToken.is_expired()
AccessToken_is_expired(expires, t) ==
    IF truthy_time(expires) THEN t >= expires ELSE TRUE

\* AccessToken.is_valid()
AccessToken_is_valid(expires, t) == ~ AccessToken_is_expired(expires, t)

(***************************************************************************)
(* UserAbstract and its three variants                                     *)
(***************************************************************************)

UserKinds == {"User", "AnonymousUser", "SuperUser"}
Passwords == {<<"a">>, <<"b">>}

\* django.contrib.auth.hashers, the credential collaborator: an encoded
\* password verifies exactly the password it was made from.
make_password(password) == <<"h", "$">> \o password
hashers_check_password(password, encoded) == encoded = make_password(password)

\* What a Python call hands back when it returns a bool or returns nothing.
py_bool(b) == IF b THEN "True" ELSE "False"

\* UserAbstract.check_password(password): the collaborator is called and
\* its answer dropped; the method has no return statement.
check_password(user, password) ==
    LET verified == hashers_check_password(password, user.password)
    IN  IF verified THEN "None" ELSE "None"

\* The properties each class defines itself.
UserAbstract_properties ==
    [is_anonymous |-> FALSE, is_authenticated |-> TRUE, is_super |-> FALSE]
AnonymousUser_properties ==
    [is_anonymous |-> TRUE, is_authenticated |-> FALSE]
SuperUser_properties ==
    [is_anonymous |-> FALSE, is_authenticated |-> TRUE, is_super |-> TRUE]
PropertyNames == DOMAIN UserAbstract_properties

user_property_inherited(kind, name) == UserAbstract_properties[name]

\* Attribute lookup: the class of the instance first, then UserAbstract.
user_property(kind, name) ==
    IF kind = "AnonymousUser" /\ name \in DOMAIN AnonymousUser_properties
    THEN AnonymousUser_properties[name]
    ELSE IF kind = "SuperUser" /\ name \in DOMAIN SuperUser_properties
    THEN SuperUser_properties[name]
    ELSE UserAbstract_properties[name]

\* models.Model.save() on an instance: a new instance (pk None) is inserted
\* with the next AutoField value, a stored one is updated in place.
Model_save(us, user) ==
    IF user.id = NULL
    THEN LET id == Max({0} \cup ids(us)) + 1
         IN  [users |-> us \cup {[user EXCEPT !.id = id]},
              self |-> [user EXCEPT !.id = id], raises |-> "None"]
    ELSE [users |-> {u \in us : u.id # user.id} \cup {user},
          self |-> user, raises |-> "None"]

\* models.Model.delete() on an instance: without a pk Django refuses
\* (AssertionError); with one the row goes and the instance loses its pk.
Model_delete(us, user) ==
    IF user.id = NULL
    THEN [users |-> us, self |-> user, raises |-> "AssertionError"]
    ELSE [users |-> {u \in us : u.id # user.id},
          self |-> [user EXCEPT !.id = NULL], raises |-> "None"]

user_save_inherited(us, user) == Model_save(us, user)

\* save(): AnonymousUser and SuperUser override it to raise; User inherits
\* models.Model.save.
user_save(us, user) ==
    IF user.kind \in {"AnonymousUser", "SuperUser"}
    THEN [users |-> us, self |-> user, raises |-> "NotImplementedError"]
    ELSE Model_save(us, user)

\* delete(): AnonymousUser and SuperUser override it to raise; User inherits
\* models.Model.delete.
user_delete(us, user) ==
    IF user.kind \in {"AnonymousUser", "SuperUser"}
    THEN [users |-> us, self |-> user, raises |-> "NotImplementedError"]
    ELSE Model_delete(us, user)

(***************************************************************************)
(* Method calls on model instances that are not rows of the store          *)
(***************************************************************************)

\* An Application as its constructor leaves it, with the two fields the
\* methods read drawn from their domains.
ApplicationInstances ==
    {[kind |-> "Application", client_type |-> "confidential",
      authorization_grant_type |-> g, redirect_uris |-> r] :
        g \in GRANT_TYPES, r \in AppRedirectUris}

\* A Grant with any expiry, None included.
GrantInstances ==
    {[kind |-> "Grant", code |-> 1, expires |-> e, redirect_uris |-> Uri_cb_x1] :
        e \in {NULL} \cup 0..(MaxTime + 1)}

\* An AccessToken with any expiry, None included.
AccessTokenInstances ==
    {[kind |-> "AccessToken", token |-> 1, expires |-> e] : e \in {NULL} \cup 0..(MaxTime + 1)}

\* A user of each variant, not yet saved; User and SuperUser carry an
\* encoded password.
UserInstances ==
    {[kind |-> "User", id |-> NULL, password |-> make_password(pw)] : pw \in Passwords}
    \cup {[kind |-> "SuperUser", id |-> NULL, password |-> make_password(pw)] : pw \in Passwords}
    \cup {[kind |-> "AnonymousUser", id |-> NULL]}

CallsInit ==
    /\ StoreInit
    /\ obj \in ApplicationInstances \cup GrantInstances \cup AccessTokenInstances
               \cup UserInstances
    /\ call = NoCall

Call_clean ==
    /\ obj.kind = "Application"
    /\ call' = [op |-> "clean", ret |-> clean(obj)]
    /\ UNCHANGED << now, accessTokens, refreshTokens, grants, seq, pc, inst, last, exchanged, obj, applications, users >>

Call_allow_grant_type(grant_type) ==
    /\ obj.kind = "Application"
    /\ call' = [op |-> "allow_grant_type", grant_type |-> grant_type,
                ret |-> allow_grant_type(obj, grant_type)]
    /\ UNCHANGED << now, accessTokens, refreshTokens, grants, seq, pc, inst, last, exchanged, obj, applications, users >>

\* Grant.is_expired() reads the clock once.
Call_Grant_is_expired ==
    /\ obj.kind = "Grant"
    /\ call' = [op |-> "Grant.is_expired", time |-> now,
                ret |-> Grant_is_expired(obj.expires, now)]
    /\ UNCHANGED << now, accessTokens, refreshTokens, grants, seq, pc, inst, last, exchanged, obj, applications, users >>

Call_default_redirect_uri ==
    /\ obj.kind = "Application"
    /\ \E ret \in {default_redirect_uri(obj)} :
           call' = [op |-> "default_redirect_uri", ret |-> ret]
    /\ UNCHANGED << now, accessTokens, refreshTokens, grants, seq, pc, inst, last, exchanged, obj, applications, users >>

\* AccessToken.is_expired() and is_valid() each read the clock once.
Call_AccessToken_is_expired ==
    /\ obj.kind = "AccessToken"
    /\ call' = [op |-> "AccessToken.is_expired", time |-> now,
                ret |-> AccessToken_is_expired(obj.expires, now)]
    /\ UNCHANGED << now, accessTokens, refreshTokens, grants, seq, pc, inst, last, exchanged, obj, applications, users >>

Call_AccessToken_is_valid ==
    /\ obj.kind = "AccessToken"
    /\ call' = [op |-> "AccessToken.is_valid", time |-> now,
                ret |-> AccessToken_is_valid(obj.expires, now)]
    /\ UNCHANGED << now, accessTokens, refreshTokens, grants, seq, pc, inst, last, exchanged, obj, applications, users >>

Call_check_password(password) ==
    /\ obj.kind \in {"User", "SuperUser"}
    /\ call' = [op |-> "check_password", password |-> password,
                ret |-> check_password(obj, password)]
    /\ UNCHANGED << now, accessTokens, refreshTokens, grants, seq, pc, inst, last, exchanged, obj, applications, users >>

Call_user_property(name) ==
    /\ obj.kind \in UserKinds
    /\ call' = [op |-> "property", name |-> name, ret |-> user_property(obj.kind, name)]
    /\ UNCHANGED << now, accessTokens, refreshTokens, grants, seq, pc, inst, last, exchanged, obj, applications, users >>

Call_user_save ==
    /\ obj.kind \in UserKinds
    /\ LET r == user_save(users, obj)
       IN  /\ users' = r.users
           /\ obj' = r.self
           /\ call' = [op |-> "save", ret |-> r.raises]
    /\ UNCHANGED << now, accessTokens, refreshTokens, grants, seq, pc, inst, last, exchanged, applications >>

Call_user_delete ==
    /\ obj.kind \in UserKinds
    /\ LET r == user_delete(users, obj)
       IN  /\ users' = r.users
           /\ obj' = r.self
           /\ call' = [op |-> "delete", ret |-> r.raises]
    /\ UNCHANGED << now, accessTokens, refreshTokens, grants, seq, pc, inst, last, exchanged, applications >>

CallsNext ==
    \/ Tick
    \/ \E password \in Passwords : Call_check_password(password)
    \/ \E name \in PropertyNames : Call_user_property(name)
    \/ Call_user_save
    \/ Call_user_delete
    \/ Call_clean
    \/ Call_default_redirect_uri
    \/ Call_AccessToken_is_expired
    \/ Call_AccessToken_is_valid
    \/ \E g \in RequestedGrantTypes : Call_allow_grant_type(g)
    \/ Call_Grant_is_expired

SpecCalls == CallsInit /\ [][CallsNext]_vars

(***************************************************************************)
(* Grant.redirect_uri_allowed on allow-lists and candidates written from   *)
(* their parts                                                             *)
(***************************************************************************)

\* The longest allow-list.
MaxEntries == 2

Str_a_com_8 == Str_a_com \o <<":","8">>

Pair_x1 == << <<"x">>, <<"1">> >>
Pair_y2 == << <<"y">>, <<"2">> >>
Pair_x_ == << <<"x">>, << >> >>

\* A URI by its parts: scheme, netloc, path and the (key, value) pairs of its
\* query, in the order written.
UriOf(scheme, netloc, path, query) ==
    [scheme |-> scheme, netloc |-> netloc, path |-> path, query |-> query]

AllowEntries ==
    { UriOf(Str_https, Str_a_com, Str_cb, << Pair_x1 >>),
      UriOf(Str_https, Str_a_com, Str_cb, << >>),
      UriOf(Str_https, Str_a_com, Str_other, << Pair_x1 >>),
      UriOf(Str_http, Str_a_com_8, Str_cb, << Pair_y2 >>),
      UriOf(Str_https, Str_a_com, Str_cb, << Pair_x_ >>),
      UriOf(Str_https, Str_b_com, Str_cb, << Pair_y2, Pair_x1 >>) }

CandidateUris ==
    { UriOf(s, n, p, q) :
        s \in {Str_https, Str_http},
        n \in {Str_a_com, Str_a_com_8, Str_b_com},
        p \in {Str_cb, Str_other},
        q \in { << >>, << Pair_x1 >>, << Pair_y2 >>, << Pair_x1, Pair_y2 >>,
                << Pair_y2, Pair_x1 >>, << Pair_x_, Pair_y2 >> } }

\* The sequences over S of length at most n.
SeqsUpTo(S, n) == UNION {[1..k -> S] : k \in 0..n}

\* The strings s[1] + sep + s[2] + ... (str.join).
RECURSIVE join(_, _)
join(ss, sep) ==
    IF ss = << >> THEN << >>
    ELSE IF Len(ss) = 1 THEN ss[1]
    ELSE ss[1] \o sep \o join(Tail(ss), sep)

\* A URI as the string a client writes: scheme://netloc/path?k=v&k=v
unparse(u) ==
    u.scheme \o <<":","/","/">> \o u.netloc \o u.path \o
    (IF u.query = << >> THEN << >>
     ELSE <<"?">> \o join([i \in 1..Len(u.query) |-> u.query[i][1] \o <<"=">> \o u.query[i][2]],
                          <<"&">>))

\* The allow-list a Grant stores: its entries, one space between them.
unparse_list(entries) == join([i \in 1..Len(entries) |-> unparse(entries[i])], <<" ">>)

\* A Grant whose allow-list was written from `entries`.
UriInit ==
    /\ StoreInit
    /\ \E entries \in SeqsUpTo(AllowEntries, MaxEntries) :
           obj = [kind |-> "Grant", code |-> 1, expires |-> 1,
                  redirect_uris |-> unparse_list(entries), entries |-> entries]
    /\ call = NoCall

\* One call in a behaviour: the method reads nothing but its arguments.
Call_redirect_uri_allowed(candidate) ==
    /\ obj.kind = "Grant"
    /\ call = NoCall
    /\ \E uri \in {unparse(candidate)} :
           call' = [op |-> "redirect_uri_allowed", uri |-> uri, candidate |-> candidate,
                    ret |-> redirect_uri_allowed(obj.redirect_uris, uri)]
    /\ UNCHANGED << now, accessTokens, refreshTokens, grants, seq, pc, inst, last, exchanged, obj, applications, users >>

UriNext == \E candidate \in CandidateUris : Call_redirect_uri_allowed(candidate)

SpecUri == UriInit /\ [][UriNext]_vars

(***************************************************************************)
(* The tables under their declared constraints: primary key, unique,       *)
(* one-to-one, foreign keys with on_delete=CASCADE                         *)
(***************************************************************************)

\* client_id and client_secret default to ClientIDGenerator().hash() and
\* ClientSecretGenerator().hash(): the calls stand in the class body, so each
\* is made once, when the class is defined, and its value is the default of
\* every instance.
client_id_default     == "generated-client-id"
client_secret_default == "generated-client-secret"

\* What a creation may supply: no client_id, or one of its own.
NotSupplied       == "not-supplied"
SuppliedClientIds == {"app1"}
ClientNames       == {"n1", "n2"}
TokenValues       == {"t1", "t2"}

\* Application(client_name=..., [client_id=...]): the fields a constructor
\* call leaves, defaults filled in.
new_Application(client_name, client_id) ==
    [client_id |-> IF client_id = NotSupplied THEN client_id_default ELSE client_id,
     client_secret |-> client_secret_default,
     client_name |-> client_name]

pks(apps) == {a.client_id : a \in apps}

\* INSERT into the Application table (objects.create, save(force_insert)):
\* client_id is the primary key, a second row with it is refused.
Application_insert(apps, row) ==
    IF row.client_id \in pks(apps)
    THEN [applications |-> apps, raises |-> "IntegrityError"]
    ELSE [applications |-> apps \cup {row}, raises |-> "None"]

\* save() of a new instance whose primary key is set: UPDATE the row with
\* that key if there is one, INSERT otherwise.
Application_save(apps, row) ==
    [applications |-> {a \in apps : a.client_id # row.client_id} \cup {row},
     raises |-> "None"]

Application_delete_keeps_grants(apps, gs, ats, rts, client_id) ==
    LET gone == {a \in ats : a.application = client_id}
    IN  [applications |-> {a \in apps : a.client_id # client_id},
         grants |-> gs,
         ats |-> ats \ gone,
         rts |-> {r \in rts : r.application # client_id /\ r.access_token_id \notin ids(gone)}]

\* Application.delete(): Grant.application, AccessToken.application and
\* RefreshToken.application are on_delete=CASCADE, and so is
\* RefreshToken.access_token: the rows that reference the Application go
\* with it, and with each AccessToken its RefreshToken.
Application_delete(apps, gs, ats, rts, client_id) ==
    LET gone == {a \in ats : a.application = client_id}
    IN  [applications |-> {a \in apps : a.client_id # client_id},
         grants |-> {g \in gs : g.application # client_id},
         ats |-> ats \ gone,
         rts |-> {r \in rts : r.application # client_id /\ r.access_token_id \notin ids(gone)}]

AccessToken_token_unchecked(ats, token) == TRUE

\* unique=True on AccessToken.token, RefreshToken.token, Grant.code, and the
\* unique index of the OneToOneField: what an INSERT must satisfy.
AccessToken_token_unique(ats, token)  == \A a \in ats : a.token # token
RefreshToken_token_unique(rts, token) == \A r \in rts : r.token # token
Grant_code_unique(gs, code)           == \A g \in gs : g.code # code

RefreshToken_access_token_unchecked(rts, id) == TRUE

RefreshToken_access_token_unique(rts, id) == \A r \in rts : r.access_token_id # id

\* Application.objects.create(client_name=..., [client_id=...]): the row is
\* inserted.
Application_objects_create(client_name, client_id) ==
    /\ LET r == Application_insert(applications, new_Application(client_name, client_id))
       IN  /\ applications' = r.applications
           /\ call' = [op |-> "Application.create", supplied |-> client_id # NotSupplied,
                       ret |-> r.raises]
    /\ UNCHANGED << now, accessTokens, refreshTokens, grants, seq, pc, inst, last, exchanged, obj, users >>

\* Application(client_name=..., [client_id=...]).save()
Application_new_save(client_name, client_id) ==
    /\ LET r == Application_save(applications, new_Application(client_name, client_id))
       IN  /\ applications' = r.applications
           /\ call' = [op |-> "Application.create", supplied |-> client_id # NotSupplied,
                       ret |-> r.raises]
    /\ UNCHANGED << now, accessTokens, refreshTokens, grants, seq, pc, inst, last, exchanged, obj, users >>

\* application.delete() on a stored Application.
Delete_Application(client_id) ==
    /\ client_id \in pks(applications)
    /\ LET d == Application_delete(applications, grants, accessTokens, refreshTokens, client_id)
       IN  /\ applications' = d.applications
           /\ grants' = d.grants
           /\ accessTokens' = d.ats
           /\ refreshTokens' = d.rts
    /\ call' = [op |-> "Application.delete", client_id |-> client_id, ret |-> "None"]
    /\ UNCHANGED << now, seq, pc, inst, last, exchanged, obj, users >>

\* An AccessToken is written for a client with a token string from the
\* generator: refused when the Application is not stored or the token string
\* is taken.
Insert_AccessToken(u, app, token) ==
    /\ seq.at < MaxTokens
    /\ IF app \in pks(applications) /\ AccessToken_token_unique(accessTokens, token)
       THEN /\ accessTokens' = accessTokens \cup
                   {[id |-> seq.at + 1, user |-> u, application |-> app,
                     token |-> token, expires |-> now + 1]}
            /\ seq' = [seq EXCEPT !.at = @ + 1]
            /\ call' = [op |-> "AccessToken.insert", ret |-> "None"]
       ELSE /\ call' = [op |-> "AccessToken.insert", token |-> token, ret |-> "IntegrityError"]
            /\ UNCHANGED << accessTokens, seq >>
    /\ UNCHANGED << now, refreshTokens, grants, pc, inst, last, exchanged, obj, applications, users >>

\* A RefreshToken is written for an AccessToken, for the same user and
\* client: refused when the AccessToken is not stored, when it has a
\* RefreshToken already, or when the token string is taken.
Insert_RefreshToken(at_id, token) ==
    /\ seq.rt < MaxTokens
    /\ IF /\ at_id \in ids(accessTokens)
          /\ RefreshToken_access_token_unique(refreshTokens, at_id)
          /\ RefreshToken_token_unique(refreshTokens, token)
       THEN /\ \E at \in {a \in accessTokens : a.id = at_id} :
                  refreshTokens' = refreshTokens \cup
                      {[id |-> seq.rt + 1, access_token_id |-> at_id, user |-> at.user,
                        application |-> at.application, token |-> token]}
            /\ seq' = [seq EXCEPT !.rt = @ + 1]
            /\ call' = [op |-> "RefreshToken.insert", ret |-> "None"]
       ELSE /\ call' = [op |-> "RefreshToken.insert", token |-> token, ret |-> "IntegrityError"]
            /\ UNCHANGED << refreshTokens, seq >>
    /\ UNCHANGED << now, accessTokens, grants, pc, inst, last, exchanged, obj, applications, users >>

\* A Grant is written for a client with a code from the generator: refused
\* when the Application is not stored or the code is taken.
Insert_Grant(u, app, code) ==
    /\ seq.grant < MaxGrants
    /\ IF app \in pks(applications) /\ Grant_code_unique(grants, code)
       THEN /\ grants' = grants \cup
                   {[id |-> seq.grant + 1, user |-> u, code |-> code, application |-> app,
                     expires |-> now + 1, redirect_uris |-> Uri_cb_x1, state |-> <<"s">>]}
            /\ seq' = [seq EXCEPT !.grant = @ + 1]
            /\ call' = [op |-> "Grant.insert", ret |-> "None"]
       ELSE /\ call' = [op |-> "Grant.insert", token |-> code, ret |-> "IntegrityError"]
            /\ UNCHANGED << grants, seq >>
    /\ UNCHANGED << now, accessTokens, refreshTokens, pc, inst, last, exchanged, obj, applications, users >>

\* AccessToken.objects.get(...).revoke() by one caller, start to end.
Revoke_AccessToken(at) ==
    /\ at \in accessTokens
    /\ LET d == AccessToken_delete(accessTokens, refreshTokens, at.id)
       IN  /\ accessTokens' = d.ats
           /\ refreshTokens' = d.rts
    /\ call' = [op |-> "AccessToken.revoke", ret |-> "None"]
    /\ UNCHANGED << now, grants, seq, pc, inst, last, exchanged, obj, applications, users >>

\* RefreshToken.objects.get(...).revoke() by one caller, start to end: the
\* AccessToken is read and revoked, then the RefreshToken deleted.
Revoke_RefreshToken(rt) ==
    /\ rt \in refreshTokens
    /\ IF rt.access_token_id \in ids(accessTokens)
       THEN LET d == AccessToken_delete(accessTokens, refreshTokens, rt.access_token_id)
            IN  /\ accessTokens' = d.ats
                /\ refreshTokens' = RefreshToken_delete(d.rts, rt.id)
                /\ call' = [op |-> "RefreshToken.revoke", ret |-> "None"]
       ELSE /\ call' = [op |-> "RefreshToken.revoke", ret |-> "DoesNotExist"]
            /\ UNCHANGED << accessTokens, refreshTokens >>
    /\ UNCHANGED << now, grants, seq, pc, inst, last, exchanged, obj, applications, users >>

\* The constructor calls: under any name without a client_id, under one
\* name with a client_id.
CreationArgs ==
    {<<n, NotSupplied>> : n \in ClientNames} \cup {<<"n1", c>> : c \in SuppliedClientIds}

StoreNext ==
    \/ \E a \in CreationArgs : Application_objects_create(a[1], a[2])
    \/ \E a \in CreationArgs : Application_new_save(a[1], a[2])
    \/ \E c \in SuppliedClientIds \cup {client_id_default} : Delete_Application(c)
    \/ \E u \in Users, c \in SuppliedClientIds \cup {client_id_default}, t \in TokenValues :
          Insert_AccessToken(u, c, t)
    \/ \E id \in 1..MaxTokens, t \in TokenValues : Insert_RefreshToken(id, t)
    \/ \E u \in Users, c \in SuppliedClientIds \cup {client_id_default}, t \in TokenValues :
          Insert_Grant(u, c, t)
    \/ \E at \in accessTokens : Revoke_AccessToken(at)
    \/ \E rt \in refreshTokens : Revoke_RefreshToken(rt)

SpecStore == Init /\ [][StoreNext]_vars

(***************************************************************************)
(* ApplicationAbstract and Grant.is_expired: the properties                *)
(***************************************************************************)

\* C1: for every Application and every requested grant type g,
\* allow_grant_type returns true iff g is the application's
\* authorization_grant_type, or g is "refresh_token" and the application's
\* authorization_grant_type is authorization-code, password or
\* client-credentials; "refresh_token" is never accepted for implicit.
C1_allow_grant_type ==
    call.op = "allow_grant_type" =>
        /\ call.ret =
             (\/ call.grant_type = obj.authorization_grant_type
              \/ /\ call.grant_type = "refresh_token"
                 /\ obj.authorization_grant_type \in
                      {"authorization-code", "password", "client-credentials"})
        /\ (call.grant_type = "refresh_token" /\ obj.authorization_grant_type = "implicit")
             => call.ret = FALSE

\* A password application was asked for "refresh_token" and said yes.
C1_witness ==
    /\ call.op = "allow_grant_type"
    /\ call.grant_type = "refresh_token"
    /\ obj.authorization_grant_type = "password"
    /\ call.ret = TRUE

C10_Grant_is_expired ==
    call.op = "Grant.is_expired" =>
        call.ret = (obj.expires = NULL \/ call.time >= obj.expires)

\* is_expired was asked at the very instant of expiry and said yes.
C10_witness ==
    /\ call.op = "Grant.is_expired"
    /\ obj.expires # NULL
    /\ call.time = obj.expires
    /\ call.ret = TRUE

(***************************************************************************)
(* Grant.redirect_uri_allowed: the properties                              *)
(***************************************************************************)

\* The (key, value) pairs a query is written with, and those of them that
\* have a value.
written_pairs(u) == Range(u.query)
valued_pairs(u)  == {kv \in Range(u.query) : kv[2] # << >>}

same_location(e, c) ==
    e.scheme = c.scheme /\ e.netloc = c.netloc /\ e.path = c.path

\* C7, as claimed: redirect_uri_allowed(candidate) returns true iff some
\* entry of the allow-list has the candidate's scheme, host and path and
\* every (key, value) pair of the entry's query is a pair of the
\* candidate's query.
C7_every_written_pair_required ==
    call.op = "redirect_uri_allowed" =>
        call.ret =
            (\E i \in 1..Len(obj.entries) :
                /\ same_location(obj.entries[i], call.candidate)
                /\ written_pairs(obj.entries[i]) \subseteq written_pairs(call.candidate))

\* C7, amended: redirect_uri_allowed(candidate) returns true iff some entry
\* of the allow-list has the candidate's scheme, netloc and path and every
\* (key, value) pair of the entry's query that has a non-empty value is such
\* a pair of the candidate's query (a pair with a blank value, as in "x=",
\* is dropped on both sides and requires nothing); it returns false when no
\* entry matches (an empty allow-list, another path, a required pair
\* missing), and extra pairs on the candidate are tolerated.
C7_redirect_uri_allowed ==
    call.op = "redirect_uri_allowed" =>
        /\ call.ret =
             (\E i \in 1..Len(obj.entries) :
                 /\ same_location(obj.entries[i], call.candidate)
                 /\ valued_pairs(obj.entries[i]) \subseteq valued_pairs(call.candidate))
        /\ obj.entries = << >> => call.ret = FALSE

\* The entry https://a.com/cb?x=1 allowed https://a.com/cb?x=1&y=2.
C7_witness ==
    /\ call.op = "redirect_uri_allowed"
    /\ obj.entries = << UriOf(Str_https, Str_a_com, Str_cb, << Pair_x1 >>) >>
    /\ call.candidate = UriOf(Str_https, Str_a_com, Str_cb, << Pair_x1, Pair_y2 >>)
    /\ call.ret = TRUE

(***************************************************************************)
(* Revocation: the properties                                              *)
(***************************************************************************)

\* The rows a step removes.
removed_access_tokens  == accessTokens \ accessTokens'
removed_refresh_tokens == refreshTokens \ refreshTokens'

\* The step in which AccessToken.revoke() ends.
AccessToken_revoke_ends == last' # last /\ last'.op = "AccessToken.revoke"

\* C3: when RefreshToken.revoke completes on a refresh token whose linked
\* AccessToken existed, neither that RefreshToken nor its linked AccessToken
\* is in the store, and the statements of the call removed no other
\* AccessToken and no other RefreshToken (and added none).
C3_RefreshToken_revoke ==
    [][\A p \in Procs :
          /\ (pc[p] \in {"rt_revoke_at", "rt_revoke_self"} /\ pc'[p] # pc[p]) =>
                /\ removed_access_tokens \subseteq
                     {a \in accessTokens : a.id = inst[p].row.access_token_id}
                /\ removed_refresh_tokens \subseteq
                     {r \in refreshTokens : r.id = inst[p].row.id}
                /\ accessTokens' \subseteq accessTokens
                /\ refreshTokens' \subseteq refreshTokens
          /\ (pc[p] = "rt_revoke_self" /\ pc'[p] = "ready") =>
                /\ last'.op = "RefreshToken.revoke" /\ last'.outcome = "ok"
                /\ inst[p].row.id \notin ids(refreshTokens')
                /\ inst[p].row.access_token_id \notin ids(accessTokens')
      ]_vars

\* A RefreshToken.revoke completed, its pair is gone and another pair is
\* still in the store.
C3_witness ==
    /\ last.op = "RefreshToken.revoke"
    /\ last.outcome = "ok"
    /\ inst[last.proc].kind = "RefreshToken"
    /\ inst[last.proc].row.id = last.id
    /\ last.id \notin ids(refreshTokens)
    /\ inst[last.proc].row.access_token_id \notin ids(accessTokens)
    /\ accessTokens # {}
    /\ refreshTokens # {}

C5_revoke_without_access_token ==
    [][\A p \in Procs :
          (/\ pc[p] = "ready"
           /\ inst[p].kind = "RefreshToken"
           /\ inst[p].row.access_token_id \notin ids(accessTokens)
           /\ last' # last
           /\ last'.op = "RefreshToken.revoke"
           /\ last'.proc = p)
          => /\ last'.outcome = "ok"
             /\ inst[p].row.id \notin ids(refreshTokens')
      ]_vars

\* C6: in every state of every interleaving of readers with
\* AccessToken.revoke and RefreshToken.revoke, each RefreshToken in the store
\* links to an AccessToken in the store: there is no state in which a reader
\* can take as valid a RefreshToken whose AccessToken has been deleted.
C6_no_dangling_refresh_token ==
    \A rt \in refreshTokens : rt.access_token_id \in ids(accessTokens)

\* A RefreshToken.revoke stands between its two deletes while a reader holds
\* the same RefreshToken.
C6_witness ==
    \E p \in Procs, q \in Procs :
        /\ p # q
        /\ pc[p] = "rt_revoke_self"
        /\ pc[q] = "ready"
        /\ inst[q].kind = "RefreshToken"
        /\ inst[q].row = inst[p].row
        /\ inst[p].row.access_token_id \notin ids(accessTokens)

(***************************************************************************)
(* The code exchange: the properties                                       *)
(***************************************************************************)

\* The codes exchanged so far, and what a step does to the tokens.
exchanged_codes  == {e.code : e \in exchanged}
tokens_unchanged == accessTokens' = accessTokens /\ refreshTokens' = refreshTokens
one_pair_issued  ==
    /\ accessTokens \subseteq accessTokens'
    /\ refreshTokens \subseteq refreshTokens'
    /\ Cardinality(accessTokens' \ accessTokens) = 1
    /\ Cardinality(refreshTokens' \ refreshTokens) = 1
    /\ \A rt \in refreshTokens' \ refreshTokens : rt.access_token_id \in ids(accessTokens' \ accessTokens)

\* C2: a grant code is single-use. In any interleaving of exchange attempts
\* on a code, at most one attempt succeeds; the attempt that succeeds deletes
\* the Grant and issues exactly one token pair; an attempt that passed the
\* checks succeeds unless another attempt on the code has succeeded; and
\* every attempt that ends after a success on the code fails with
\* InvalidGrant and issues nothing.
C2_single_use ==
    [][/\ \A e1 \in exchanged', e2 \in exchanged' : e1.code = e2.code => e1 = e2
       /\ \A p \in Procs :
            (pc[p] = "exchange_consume" /\ pc'[p] = "ready") =>
               IF inst[p].row.code \in exchanged_codes
               THEN /\ last'.outcome = "InvalidGrant" /\ last'.proc = p
                    /\ tokens_unchanged
                    /\ exchanged' = exchanged
                    /\ grants' = grants
               ELSE /\ last'.outcome = "ok" /\ last'.proc = p
                    /\ last'.code = inst[p].row.code
                    /\ inst[p].row \in grants
                    /\ grants' = grants \ {inst[p].row}
                    /\ one_pair_issued
                    /\ exchanged_codes' = exchanged_codes \cup {inst[p].row.code}
       /\ (last' # last /\ last'.code \in exchanged_codes) =>
               /\ last'.outcome = "InvalidGrant"
               /\ tokens_unchanged
               /\ grants' = grants
       /\ (last' # last /\ last'.outcome # "ok") => tokens_unchanged /\ grants' = grants
      ]_vars

\* Two attempts passed the checks on one code; one of them has succeeded and
\* taken the Grant, the other is about to consume.
C2_witness ==
    /\ last.op = "exchange"
    /\ last.outcome = "ok"
    /\ last.code \in exchanged_codes
    /\ Cardinality(accessTokens) = 1
    /\ \E p \in Procs \ {last.proc} :
          /\ pc[p] = "exchange_consume"
          /\ inst[p].row.code = last.code
          /\ inst[p].row \notin grants

\* C8: exchanging a code never succeeds with stale data. An attempt fails
\* with InvalidGrant when no Grant has the code, with ExpiredGrant when the
\* Grant exists but is expired (no expiry, or now >= expires), with
\* RedirectMismatch when the Grant is live but the redirect URI fails
\* redirect_uri_allowed; a failing attempt issues no AccessToken and no
\* RefreshToken; an attempt goes on to issue only when all three checks
\* passed, and tokens are issued only by such an attempt.
C8_exchange_checks ==
    [][/\ \A p \in Procs :
            (pc[p] = "ready" /\ last' # last /\ last'.proc = p) =>
               /\ tokens_unchanged
               /\ LET found == {g \in grants : g.code = last'.code}
                      expired(g) == g.expires = NULL \/ now >= g.expires
                  IN  /\ found = {} => last'.outcome = "InvalidGrant"
                      /\ (found # {} /\ \E g \in found : expired(g))
                            => last'.outcome = "ExpiredGrant"
                      /\ (found # {} /\ \A g \in found : ~ expired(g))
                            => /\ last'.outcome = "RedirectMismatch"
                               /\ \A g \in found :
                                     ~ redirect_uri_allowed(g.redirect_uris, last'.uri)
       /\ \A p \in Procs :
            (pc[p] = "ready" /\ pc'[p] = "exchange_consume") =>
               /\ tokens_unchanged
               /\ inst'[p].row \in grants
               /\ inst'[p].row.expires # NULL
               /\ now < inst'[p].row.expires
               /\ redirect_uri_allowed(inst'[p].row.redirect_uris, inst'[p].uri)
       /\ ~ tokens_unchanged =>
               \E p \in Procs :
                  /\ pc[p] = "exchange_consume"
                  /\ pc'[p] = "ready"
                  /\ inst[p].row \in grants
                  /\ redirect_uri_allowed(inst[p].row.redirect_uris, inst[p].uri)
                  /\ last'.outcome = "ok"
      ]_vars

\* An exchange was refused with ExpiredGrant at the instant of expiry: the
\* Grant is still stored and no token exists.
C8_witness ==
    /\ last.op = "exchange"
    /\ last.outcome = "ExpiredGrant"
    /\ \E g \in grants : g.code = last.code /\ now = g.expires
    /\ accessTokens = {}
    /\ refreshTokens = {}

(***************************************************************************)
(* AccessToken.is_expired / is_valid, default_redirect_uri: the properties *)
(***************************************************************************)

\* C11: for every AccessToken and every clock value, is_expired is true iff
\* the expiry is null or now >= expires, and is_valid is its negation at the
\* same clock value; a token with a null expiry is never valid.
C11_AccessToken_is_valid ==
    /\ call.op = "AccessToken.is_expired" =>
          call.ret = (obj.expires = NULL \/ call.time >= obj.expires)
    /\ call.op = "AccessToken.is_valid" =>
          /\ call.ret = ~ (obj.expires = NULL \/ call.time >= obj.expires)
          /\ obj.expires = NULL => call.ret = FALSE

\* A token without expiry was asked is_valid and said no.
C11_witness ==
    /\ call.op = "AccessToken.is_valid"
    /\ obj.expires = NULL
    /\ call.ret = FALSE

\* C14: default_redirect_uri returns the first entry of the whitespace-
\* separated redirect_uris when there is one, and fails with the
\* configuration error (the ValueError of the else branch) when the list is
\* empty, a redirect_uris of whitespace only included.
C14_default_redirect_uri ==
    call.op = "default_redirect_uri" =>
        IF split(obj.redirect_uris) = << >>
        THEN call.ret = Raised("ValueError")
        ELSE call.ret = Returned(split(obj.redirect_uris)[1])

(***************************************************************************)
(* The user variants: the properties                                       *)
(***************************************************************************)

\* C13: check_password(user, candidate) returns a boolean, the credential
\* collaborator's verification of the candidate against the user's stored
\* password hash: true when the candidate verifies, false otherwise.
C13_check_password ==
    call.op = "check_password" =>
        call.ret = py_bool(hashers_check_password(call.password, obj.password))

\* C15: every save or delete on an AnonymousUser or a SuperUser fails with
\* the unsupported-operation error (NotImplementedError) and leaves every
\* table of the store unchanged.
C15_no_mutation ==
    [][(/\ obj.kind \in {"AnonymousUser", "SuperUser"}
        /\ call' # call
        /\ call'.op \in {"save", "delete"})
       => /\ call'.ret = "NotImplementedError"
          /\ UNCHANGED << users, applications, accessTokens, refreshTokens, grants, obj >>
      ]_vars

\* save() was refused on a SuperUser and nothing is stored.
C15_witness ==
    /\ obj.kind = "SuperUser"
    /\ call.op = "save"
    /\ call.ret = "NotImplementedError"
    /\ users = {}

\* C16: the capability flags are fixed by the variant: is_authenticated is
\* false for AnonymousUser and true for User and SuperUser; is_anonymous is
\* true only for AnonymousUser; is_super is true only for SuperUser.
C16_capability_flags ==
    call.op = "property" =>
        /\ call.name = "is_authenticated" => call.ret = (obj.kind # "AnonymousUser")
        /\ call.name = "is_anonymous" => call.ret = (obj.kind = "AnonymousUser")
        /\ call.name = "is_super" => call.ret = (obj.kind = "SuperUser")

\* An AnonymousUser was asked is_authenticated and said no.
C16_witness ==
    /\ call.op = "property"
    /\ obj.kind = "AnonymousUser"
    /\ call.name = "is_authenticated"
    /\ call.ret = FALSE

(***************************************************************************)
(* The tables and their constraints: the properties                        *)
(***************************************************************************)

\* C12: every Application creation that supplies no client_id succeeds and
\* adds a row of its own: the created Applications are all in the store,
\* their client_ids pairwise distinct, and no creation replaces or modifies
\* a row created before.
C12_own_client_id ==
    [][/\ (call' # call /\ call'.op = "Application.create" /\ ~ call'.supplied) =>
             /\ call'.ret = "None"
             /\ Cardinality(applications') = Cardinality(applications) + 1
       /\ (applications' \ applications # {}) => applications \subseteq applications'
      ]_vars

\* C17: the unique fields are collision-free in every state: no two
\* AccessTokens share a token, no two RefreshTokens share a token, no two
\* Grants share a code; a row is only ever added with a value no stored row
\* has, and an insert that is rejected leaves every table unchanged.
C17_unique_fields ==
    [][/\ \A a \in accessTokens', b \in accessTokens' : a.token = b.token => a = b
       /\ \A a \in refreshTokens', b \in refreshTokens' : a.token = b.token => a = b
       /\ \A a \in grants', b \in grants' : a.code = b.code => a = b
       /\ \A r \in accessTokens' \ accessTokens : \A a \in accessTokens : a.token # r.token
       /\ \A r \in refreshTokens' \ refreshTokens : \A a \in refreshTokens : a.token # r.token
       /\ \A r \in grants' \ grants : \A a \in grants : a.code # r.code
       /\ (call' # call /\ call'.ret = "IntegrityError") =>
             UNCHANGED << applications, accessTokens, refreshTokens, grants, users >>
      ]_vars

\* An AccessToken insert was refused: its token string is that of a stored
\* AccessToken.
C17_witness ==
    /\ call.op = "AccessToken.insert"
    /\ call.ret = "IntegrityError"
    /\ \E a \in accessTokens : a.token = call.token
    /\ pks(applications) = SuppliedClientIds \cup {client_id_default}

\* C18: the refresh-to-access link is one-to-one in every state reached by
\* issuing and revoking: each RefreshToken links to exactly one stored
\* AccessToken, and no AccessToken is linked from more than one RefreshToken.
C18_one_to_one ==
    /\ \A rt \in refreshTokens :
          Cardinality({a \in accessTokens : a.id = rt.access_token_id}) = 1
    /\ \A at \in accessTokens :
          Cardinality({r \in refreshTokens : r.access_token_id = at.id}) <= 1

\* Two pairs were issued, one RefreshToken was revoked, one pair is left.
C18_witness ==
    /\ call.op = "RefreshToken.revoke"
    /\ call.ret = "None"
    /\ seq.at = 2 /\ seq.rt = 2
    /\ Cardinality(accessTokens) = 1
    /\ Cardinality(refreshTokens) = 1

\* C19: deleting an Application cascades: after the delete no Grant, no
\* AccessToken and no RefreshToken that referenced it is in the store, and
\* the rows of the other Applications (and those Applications) are unchanged.
C19_application_delete_cascades ==
    [][(pks(applications') # pks(applications) /\ pks(applications') \subseteq pks(applications))
       => LET gone == pks(applications) \ pks(applications')
          IN  /\ Cardinality(gone) = 1
              /\ \A g \in grants' : g.application \notin gone
              /\ \A a \in accessTokens' : a.application \notin gone
              /\ \A r \in refreshTokens' : r.application \notin gone
              /\ applications' = {a \in applications : a.client_id \notin gone}
              /\ grants' = {g \in grants : g.application \notin gone}
              /\ accessTokens' = {a \in accessTokens : a.application \notin gone}
              /\ refreshTokens' = {r \in refreshTokens : r.application \notin gone}
      ]_vars

\* An Application was deleted with its Grant and its token pair; the Grant
\* and the AccessToken of the other Application are still stored.
C19_witness ==
    /\ call.op = "Application.delete"
    /\ Cardinality(applications) = 1
    /\ seq.grant = 2 /\ Cardinality(grants) = 1
    /\ seq.at = 2 /\ Cardinality(accessTokens) = 1
    /\ seq.rt >= 1 /\ refreshTokens = {}
    /\ \A g \in grants : g.application \in pks(applications)
    /\ \A a \in accessTokens : a.application \in pks(applications)
====
